---- MODULE Spec2Model ----
(***************************************************************************)
(* The Tauri command layer of src-tauri/src/main.rs: scan_files,           *)
(* get_file_hash and save_scan_results, with the helpers get_file_info and *)
(* generate_mock_scan_result.                                              *)
(*                                                                         *)
(* Strings are sequences of one-character strings, so that file_name,      *)
(* extension, replace and format! are computed and not assumed.  The       *)
(* commands share no state; one scan_files call is followed step by step   *)
(* (its await point is the 500 ms sleep), the other two commands have no   *)
(* await point and are single steps.  ScanResult.scan_time (a formatted    *)
(* wall-clock reading) and the ScanSession fields scan_type, start_time    *)
(* and end_time are carried by no operation of the code and are left out.  *)
(***************************************************************************)
EXTENDS Integers, Sequences, FiniteSets, TLC

\* ---------------------------------------------------------------- bounds

\* Longest path list handed to scan_files.
MaxFiles == 2
\* Longest files list and largest counter of a session handed to
\* save_scan_results.
MaxSessionFiles == 1
MaxCount == 1

\* ------------------------------------------------------------ environment

PathA == <<"/", "a", ".", "t">>
PathB == <<"/", "b">>
PathMissing == <<"/", "m", ".", "b">>
Paths == {PathA, PathB, PathMissing}

\* The file system std::fs::metadata looks at: the length of each file that
\* exists.  PathMissing is in no directory.
Disk == (PathA :> 3) @@ (PathB :> 0)

\* Readings of SystemTime::now() in nanoseconds since the epoch.
ClockSamples == {0, 19, 20, 29, 30, 99, 100, 119, 120, 130}

\* Values Uuid::new_v4().to_string() can return (hyphenated).
Uuids == {<<"0", "-", "1">>, <<"f", "-", "e">>}

PathLists == UNION {[1..n -> Paths] : n \in 0..MaxFiles}

\* A value no command has produced yet.
None == [tag |-> "None"]

\* ------------------------------------------------------------ std helpers

\* Option<T>.
Some(x) == [some |-> TRUE, val |-> x]
Nothing == [some |-> FALSE]
UnwrapOr(o, d) == IF o.some THEN o.val ELSE d

\* The last index of character c in s, 0 when s has none.
LastIndexOf(s, c) ==
  LET I == {i \in 1..Len(s) : s[i] = c}
  IN  IF I = {} THEN 0 ELSE CHOOSE i \in I : \A j \in I : j <= i

\* PathBuf::from(&String): the same bytes, taken as an OS string.
PathBufFrom(file_path) == file_path

\* Path::to_string_lossy: every unit of a valid UTF-8 path is kept.  A path
\* built from a String holds no other unit; one that did would be replaced
\* by U+FFFD.
IsUtf8Unit(c) == c \in STRING
ToStringLossy(path) ==
  [i \in 1..Len(path) |-> IF IsUtf8Unit(path[i]) THEN path[i] ELSE "\\uFFFD"]

\* Path::file_name, for a path that does not end in a separator: the text
\* after the last "/", none for "" and "..".
PathFileName(path) ==
  LET k == LastIndexOf(path, "/")
      n == SubSeq(path, k + 1, Len(path))
  IN  IF n = <<>> \/ n = <<".", ".">> THEN Nothing ELSE Some(n)

\* Path::extension: the text after the last "." of the file name, none when
\* the name has no "." or only a leading one.
PathExtension(path) ==
  LET f == PathFileName(path)
  IN  IF ~f.some THEN Nothing
      ELSE LET d == LastIndexOf(f.val, ".")
           IN  IF d <= 1 THEN Nothing
               ELSE Some(SubSeq(f.val, d + 1, Len(f.val)))

\* str::replace(from, "") for a one-character pattern.
RECURSIVE StrRemove(_, _)
StrRemove(s, c) ==
  IF s = <<>> THEN <<>>
  ELSE IF Head(s) = c THEN StrRemove(Tail(s), c)
  ELSE <<Head(s)>> \o StrRemove(Tail(s), c)

\* std::fs::metadata: the length of the file, or the io::Error.
FsMetadata(path) ==
  IF path \in DOMAIN Disk THEN [ok |-> TRUE, len |-> Disk[path]]
  ELSE [ok |-> FALSE, err |-> "No such file or directory (os error 2)"]

\* ---------------------------------------------------------- get_file_info

Unknown == <<"U", "n", "k", "n", "o", "w", "n">>

\* Faulty variant: the FileInfo carries the file name where the path belongs.
get_file_info_name_as_path(path) ==
  LET metadata == FsMetadata(path)
  IN  IF ~metadata.ok THEN [ok |-> FALSE, err |-> metadata.err]
      ELSE [ok |-> TRUE,
            info |-> [name |-> UnwrapOr(PathFileName(path), Unknown),
                      path |-> UnwrapOr(PathFileName(path), Unknown),
                      size |-> metadata.len,
                      extension |-> UnwrapOr(PathExtension(path), <<>>)]]

get_file_info(path) ==
  LET metadata == FsMetadata(path)
  IN  IF ~metadata.ok THEN [ok |-> FALSE, err |-> metadata.err]
      ELSE [ok |-> TRUE,
            info |-> [name |-> UnwrapOr(PathFileName(path), Unknown),
                      path |-> ToStringLossy(path),
                      size |-> metadata.len,
                      extension |-> UnwrapOr(PathExtension(path), <<>>)]]

\* ---------------------------------------------- generate_mock_scan_result

RandModulus == 100
ThreatPercent == 20
SuspiciousPercent == 30

\* rand_val in hundredths: (nanos % 100) as f32 / 100.0 is compared with the
\* f32 literals 0.2 and 0.3, each the correctly rounded quotient of the
\* hundredth it names, so the comparison is that of the hundredths.
RandVal(nanos) == nanos % RandModulus

\* Faulty variant: the suspicious branch leaves the label list empty.
ClassifyNoLabel(rand_val) ==
  IF rand_val < ThreatPercent
    THEN [status |-> "threat",
          threats |-> <<"Trojan.Generic.KD", "PUP.Optional.Bundle">>]
  ELSE IF rand_val < SuspiciousPercent
    THEN [status |-> "suspicious", threats |-> <<>>]
  ELSE [status |-> "clean", threats |-> <<>>]

\* The (status, threats) pair chosen from rand_val.
Classify(rand_val) ==
  IF rand_val < ThreatPercent
    THEN [status |-> "threat",
          threats |-> <<"Trojan.Generic.KD", "PUP.Optional.Bundle">>]
  ELSE IF rand_val < SuspiciousPercent
    THEN [status |-> "suspicious",
          threats |-> <<"Potentially Unwanted Program">>]
  ELSE [status |-> "clean", threats |-> <<>>]

\* format!("sha256:{}", uuid.to_string().replace("-", ""))
FormatHash(uuid) == <<"sha256:">> \o StrRemove(uuid, "-")

\* generate_mock_scan_result with its three ambient reads made explicit: the
\* clock and the two fresh UUIDs.
generate_mock_scan_result(file_info, nanos, idUuid, hashUuid) ==
  LET c == Classify(RandVal(nanos))
  IN  [id |-> idUuid,
       file_info |-> file_info,
       status |-> c.status,
       threats |-> c.threats,
       hash |-> FormatHash(hashUuid)]

\* ------------------------------------------------------------------ state

VARIABLES
  phase,      \* of the scan_files call: "idle", "running", "returned"
  files,      \* its argument
  stage,      \* per position of files, where the loop body stands:
              \* "pending", "meta", "sleep", "gen", "done", "failed"
  file_info,  \* per position, the FileInfo the body holds once it has one
  results,    \* its local Vec<ScanResult>
  ret,        \* what it returned: None, Ok(results) or Err(message)
  hashRet,    \* the last get_file_hash call: its argument and its digest
  accepted    \* the last session save_scan_results answered Ok for

vars == <<phase, files, stage, file_info, results, ret, hashRet, accepted>>

Init ==
  /\ phase = "idle"
  /\ files = <<>>
  /\ stage = <<>>
  /\ file_info = <<>>
  /\ results = <<>>
  /\ ret = None
  /\ hashRet = None
  /\ accepted = None

Positions == 1..Len(files)

\* ------------------------------------------------------------- scan_files

\* The UI invokes the command; results starts empty.
Invoke(paths) ==
  /\ phase \in {"idle", "returned"}
  /\ phase' = "running"
  /\ files' = paths
  /\ stage' = [k \in 1..Len(paths) |-> "pending"]
  /\ file_info' = [k \in 1..Len(paths) |-> None]
  /\ results' = <<>>
  /\ ret' = None
  /\ UNCHANGED <<hashRet, accepted>>

\* Faulty variant: every path is handed to its own task at once.
CanStartAll(k) == TRUE

\* The for loop reaches position k when the body has run to its end for every
\* position before it.
CanStart(k) == \A j \in 1..(k - 1) : stage[j] = "done"

\* The loop takes the next path and calls get_file_info.
BeginFile(k) ==
  /\ phase = "running"
  /\ stage[k] = "pending"
  /\ CanStart(k)
  /\ stage' = [stage EXCEPT ![k] = "meta"]
  /\ UNCHANGED <<phase, files, file_info, results, ret, hashRet, accepted>>

\* Ok(info) => info: the body goes on to the sleep.
MetadataOk(k) ==
  /\ phase = "running"
  /\ stage[k] = "meta"
  /\ get_file_info(PathBufFrom(files[k])).ok
  /\ stage' = [stage EXCEPT ![k] = "sleep"]
  /\ file_info' = [file_info EXCEPT
                     ![k] = get_file_info(PathBufFrom(files[k])).info]
  /\ UNCHANGED <<phase, files, results, ret, hashRet, accepted>>

ErrMessage(e) == <<"Failed to get file info: ", e>>

\* Faulty variant: the error is swallowed and the loop goes to the next path.
MetadataFailedContinue(k) ==
  /\ phase = "running"
  /\ stage[k] = "meta"
  /\ ~get_file_info(PathBufFrom(files[k])).ok
  /\ stage' = [stage EXCEPT ![k] = "done"]
  /\ UNCHANGED <<phase, files, file_info, results, ret, hashRet, accepted>>

\* Faulty variant: the loop stops and what was built so far is returned.
MetadataFailedBreak(k) ==
  /\ phase = "running"
  /\ stage[k] = "meta"
  /\ ~get_file_info(PathBufFrom(files[k])).ok
  /\ stage' = [stage EXCEPT ![k] = "failed"]
  /\ ret' = [tag |-> "Ok", val |-> results]
  /\ phase' = "returned"
  /\ UNCHANGED <<files, file_info, results, hashRet, accepted>>

\* Faulty variant: the error is replaced by a default FileInfo and the body goes
\* on.
MetadataFailedGoOn(k) ==
  /\ phase = "running"
  /\ stage[k] = "meta"
  /\ ~get_file_info(PathBufFrom(files[k])).ok
  /\ stage' = [stage EXCEPT ![k] = "sleep"]
  /\ file_info' = [file_info EXCEPT
                     ![k] = [name |-> <<>>, path |-> <<>>, size |-> 0,
                             extension |-> <<>>]]
  /\ UNCHANGED <<phase, files, results, ret, hashRet, accepted>>

\* Err(e) => return Err(format!(..)): the call ends here, results is dropped.
MetadataFailed(k) ==
  /\ phase = "running"
  /\ stage[k] = "meta"
  /\ ~get_file_info(PathBufFrom(files[k])).ok
  /\ stage' = [stage EXCEPT ![k] = "failed"]
  /\ ret' = [tag |-> "Err",
             msg |-> ErrMessage(get_file_info(PathBufFrom(files[k])).err)]
  /\ phase' = "returned"
  /\ UNCHANGED <<files, file_info, results, hashRet, accepted>>

\* tokio::time::sleep(500 ms).await completes.
SleepElapsed(k) ==
  /\ phase = "running"
  /\ stage[k] = "sleep"
  /\ stage' = [stage EXCEPT ![k] = "gen"]
  /\ UNCHANGED <<phase, files, file_info, results, ret, hashRet, accepted>>

\* generate_mock_scan_result(file_info) and results.push(scan_result).
GenerateResult(k) ==
  /\ phase = "running"
  /\ stage[k] = "gen"
  /\ \E nanos \in ClockSamples, idUuid \in Uuids, hashUuid \in Uuids :
       results' = Append(results,
         generate_mock_scan_result(file_info[k], nanos, idUuid, hashUuid))
  /\ stage' = [stage EXCEPT ![k] = "done"]
  /\ UNCHANGED <<phase, files, file_info, ret, hashRet, accepted>>

\* The loop is over: Ok(results).
ReturnOk ==
  /\ phase = "running"
  /\ \A k \in Positions : stage[k] = "done"
  /\ ret' = [tag |-> "Ok", val |-> results]
  /\ phase' = "returned"
  /\ UNCHANGED <<files, stage, file_info, results, hashRet, accepted>>

ScanNext ==
  \/ \E paths \in PathLists : Invoke(paths)
  \/ \E k \in Positions : BeginFile(k)
  \/ \E k \in Positions : MetadataOk(k)
  \/ \E k \in Positions : MetadataFailed(k)
  \/ \E k \in Positions : SleepElapsed(k)
  \/ \E k \in Positions : GenerateResult(k)
  \/ ReturnOk

\* ---------------------------------------------------------- get_file_hash

\* The digest does not read file_path: it is a fresh UUID, formatted.
get_file_hash(file_path) ==
  /\ \E uuid \in Uuids :
       hashRet' = [tag |-> "Ok", path |-> file_path,
                   digest |-> FormatHash(uuid)]
  /\ UNCHANGED <<phase, files, stage, file_info, results, ret, accepted>>

\* ------------------------------------------------------ save_scan_results

StatusSet == {"clean", "suspicious", "threat"}

\* ScanResults the UI can put in a session: what scan_files can return for
\* PathA.
SampleResults ==
  {generate_mock_scan_result(get_file_info(PathA).info, n, u, u) :
     n \in {0, 20, 30}, u \in {<<"0", "-", "1">>}}

\* The sessions the UI can send: serde accepts any value of each field.
SessionInputs ==
  [id : Uuids,
   files : UNION {[1..n -> SampleResults] : n \in 0..MaxSessionFiles},
   total_files : 0..MaxCount,
   threats_found : 0..MaxCount,
   suspicious_files : 0..MaxCount,
   clean_files : 0..MaxCount]

\* Ok(format!("Scan results saved with ID: {}", session.id)), whatever the
\* session holds.
save_scan_results(session) ==
  /\ accepted' = [tag |-> "Ok", session |-> session,
                  msg |-> <<"Scan results saved with ID: ", session.id>>]
  /\ UNCHANGED <<phase, files, stage, file_info, results, ret, hashRet>>

\* ---------------------------------------------------------- specifications

Next ==
  \/ ScanNext
  \/ \E file_path \in Paths : get_file_hash(file_path)

Spec == Init /\ [][Next]_vars

NextSave ==
  \/ ScanNext
  \/ \E session \in SessionInputs : save_scan_results(session)

SpecSave == Init /\ [][NextSave]_vars

\* ----------------------------------------------------------------- claims

Range(f) == {f[i] : i \in DOMAIN f}

\* Every ScanResult the call holds or has returned.
AllResults == Range(results) \cup (IF ret.tag = "Ok" THEN Range(ret.val) ELSE {})

Readable(path) == FsMetadata(path).ok

InFlight == Cardinality({k \in Positions : stage[k] \in {"meta", "sleep", "gen"}})

CountStatus(rs, st) == Cardinality({i \in DOMAIN rs : rs[i].status = st})

SessionConsistent(s) ==
  /\ s.total_files = Len(s.files)
  /\ s.total_files = s.threats_found + s.suspicious_files + s.clean_files
  /\ s.threats_found = CountStatus(s.files, "threat")
  /\ s.suspicious_files = CountStatus(s.files, "suspicious")
  /\ s.clean_files = CountStatus(s.files, "clean")

\* C1: a call on a list with a path that exists and a path that does not
\* still ends as a finalized outcome holding the results of the paths that
\* could be read, not as one failure of the whole batch.  (The per-file
\* error the claim adds has no place in Result<Vec<ScanResult>, String>.)
C1_PartialFailureKeepsBatch ==
  (/\ ret.tag # "None"
   /\ \E k \in Positions : Readable(files[k])
   /\ \E k \in Positions : ~Readable(files[k]))
  => /\ ret.tag = "Ok"
     /\ [i \in DOMAIN ret.val |-> ret.val[i].file_info.path]
          = SelectSeq(files, Readable)

\* C2: every ScanResult produced has status clean exactly when its threats
\* list is empty; suspicious and threat results carry at least one label.
C2_CleanIffNoThreats ==
  \A r \in AllResults :
    /\ r.status \in StatusSet
    /\ (r.status = "clean") <=> (r.threats = <<>>)

C2_Witness ==
  /\ ret.tag = "Ok"
  /\ \E i, j \in DOMAIN ret.val :
       ret.val[i].status = "clean" /\ ret.val[j].status = "suspicious"

\* C3: the result list of a scan_files call over a non-empty list of readable
\* paths has as many entries as the three per-status counts add up to, and
\* every session save_scan_results accepts has total_files = |files| =
\* threats_found + suspicious_files + clean_files, each counter the number
\* of results of that status.
C3_SessionCountersConsistent ==
  /\ (ret.tag = "Ok" /\ files # <<>>)
       => Len(ret.val) = CountStatus(ret.val, "threat")
                         + CountStatus(ret.val, "suspicious")
                         + CountStatus(ret.val, "clean")
  /\ accepted.tag = "Ok" => SessionConsistent(accepted.session)

\* C4: two get_file_hash calls on the same path return the same digest, and
\* the hash of a ScanResult for that path is that digest.
C4_HashIdempotent ==
  /\ [][(hashRet.tag = "Ok" /\ hashRet'.tag = "Ok"
          /\ hashRet'.path = hashRet.path)
        => hashRet'.digest = hashRet.digest]_vars
  /\ [](\A r \in AllResults :
          (hashRet.tag = "Ok" /\ hashRet.path = r.file_info.path)
            => r.hash = hashRet.digest)

\* C5: two classifications of the same FileInfo give the same
\* (status, threats) pair.
C5_ClassificationDeterministic ==
  \A r1, r2 \in AllResults :
    r1.file_info = r2.file_info
      => (r1.status = r2.status /\ r1.threats = r2.threats)

\* C6: no clean result exists for a path whose metadata read failed, and a
\* call in which a metadata read failed never ends Ok: the failure is
\* reported.
C6_UnscannedNeverClean ==
  /\ \A r \in AllResults :
       r.status = "clean"
         => \E k \in Positions :
              /\ files[k] = r.file_info.path
              /\ Readable(files[k])
              /\ stage[k] = "done"
  /\ \A k \in Positions : stage[k] = "failed" => ret.tag = "Err"
  /\ ret.tag = "Ok" => \A k \in Positions : Readable(files[k])

C6_Witness ==
  /\ ret.tag = "Err"
  /\ \E k \in Positions : stage[k] = "failed" /\ ~Readable(files[k])
  /\ \E i \in DOMAIN results : results[i].status = "clean"

\* C7: within one scan_files call the number of per-file stages in flight
\* (metadata read, sleep, result construction) is at most C, for every
\* bound C >= 1.
C7_ConcurrencyBound ==
  \A C \in 1..(MaxFiles + 1) : InFlight <= C

C7_Witness ==
  /\ Len(files) >= 2
  /\ stage[1] = "sleep"
  /\ stage[2] = "pending"

\* C8: for a path whose metadata read fails, neither the sleep nor
\* generate_mock_scan_result runs, no FileInfo is held and no ScanResult is
\* built: results holds one entry per position that ran to its end, each for
\* a readable path.
C8_FailureShortCircuits ==
  /\ \A k \in Positions :
       ~Readable(files[k])
         => stage[k] \in {"pending", "meta", "failed"} /\ file_info[k] = None
  /\ Len(results) = Cardinality({k \in Positions : stage[k] = "done"})
  /\ \A r \in AllResults : Readable(r.file_info.path)

C8_Witness ==
  /\ phase = "returned"
  /\ Len(files) >= 1
  /\ stage[1] = "failed"
  /\ results = <<>>

\* C9: an Ok return has one result per input position, the i-th carrying the
\* i-th input path, duplicates included.
C9_ResultsInInputOrder ==
  ret.tag = "Ok"
    => /\ Len(ret.val) = Len(files)
       /\ \A i \in Positions : ret.val[i].file_info.path = files[i]

C9_Witness ==
  /\ ret.tag = "Ok"
  /\ Len(files) = 2
  /\ files[1] = files[2]
  /\ Len(ret.val) = 2

\* C10: positions are processed one after another in input order; when the
\* metadata read at position i fails the call has returned Err at once, the
\* Err carries none of the results built before i, and no position after i
\* is ever started.
C10_FailFast ==
  /\ \A k \in Positions :
       stage[k] # "pending" => \A j \in 1..(k - 1) : stage[j] = "done"
  /\ \A k \in Positions :
       stage[k] = "failed"
         => /\ phase = "returned"
            /\ ret.tag = "Err"
            /\ \A j \in Positions : j > k => stage[j] = "pending"
  /\ \A k \in Positions :
       (~Readable(files[k]) /\ stage[k] \notin {"pending", "meta"})
         => stage[k] = "failed"
  /\ ret.tag = "Err" => DOMAIN ret = {"tag", "msg"}
  /\ phase = "returned" => ret.tag \in {"Ok", "Err"}

C10_Witness ==
  /\ ret.tag = "Err"
  /\ Len(files) = 2
  /\ stage[2] = "failed"
  /\ Len(results) = 1

====
